---- MODULE Spec2Model ----
(***************************************************************************)
(* A model of the crawl-and-extract workflow of src/cgc/spiders/cgc.py     *)
(* (class CgcSpider): the homepage callback parse_home with its CSV        *)
(* loader, form locator and submitter, the fallback _manual_form_submit,   *)
(* the detail-page callback parse_cert and the download callback           *)
(* save_image, driven by an engine that keeps at most CONCURRENT_REQUESTS  *)
(* requests in flight.                                                     *)
(*                                                                         *)
(* Text is modelled as a sequence of tokens (one token per character or    *)
(* per unit that the code never looks inside), so that strip, unquote,     *)
(* urlsplit, basename, splitext and urljoin are computed, not assumed.     *)
(* An absent attribute (Python's None) is the empty sequence <<>>, a       *)
(* present one the one-element sequence <<value>>.                         *)
(***************************************************************************)
EXTENDS Naturals, Sequences, FiniteSets, TLC

\* ----------------------------------------------------------------- bounds
MaxRows == 2
MaxElems == 2
MaxUrlLen == 3
MaxCtypeLen == 2

\* -------------------------------------------------------- program constants
CONCURRENT_REQUESTS == 2

\* ------------------------------------------------------------ small helpers
SeqsUpTo(S, n) == UNION {[1..k -> S] : k \in 0..n}

Range(s) == {s[i] : i \in 1..Len(s)}

\* ------------------------------------------------------------------ strings
\* str.strip(): leading and trailing whitespace removed.
RECURSIVE LStrip(_)
LStrip(s) == IF s # <<>> /\ Head(s) = " " THEN LStrip(Tail(s)) ELSE s

RECURSIVE RStrip(_)
RStrip(s) ==
  IF s # <<>> /\ s[Len(s)] = " " THEN RStrip(SubSeq(s, 1, Len(s) - 1)) ELSE s

Strip(s) == RStrip(LStrip(s))

\* --------------------------------------------------------------------- URLs
\* Tokens of a URL: "H" is a scheme and authority ("https://host"), "/", ".",
\* "?" are themselves, "%2E" and "%3F" are the percent-encodings of "." and
\* "?", every other token is a letter.
Authority == "H"

IsAbsolute(u) == u # <<>> /\ Head(u) = Authority

\* The index of the first "?" of u, or Len(u) + 1.
RECURSIVE FirstQuery(_, _)
FirstQuery(u, i) ==
  IF i > Len(u) THEN Len(u) + 1
  ELSE IF u[i] = "?" THEN i ELSE FirstQuery(u, i + 1)

\* The index of the last token t of s, or 0.
RECURSIVE LastIndexOf(_, _, _)
LastIndexOf(s, t, i) ==
  IF i = 0 THEN 0 ELSE IF s[i] = t THEN i ELSE LastIndexOf(s, t, i - 1)

\* urlsplit(u).path: what follows the authority, up to the query.
UrlPath(u) ==
  LET from == IF IsAbsolute(u) THEN 2 ELSE 1
  IN SubSeq(u, from, FirstQuery(u, 1) - 1)

\* urljoin(base, ref) for a base that is an absolute URL and a reference
\* without dot segments.
UrlJoin(base, ref) ==
  LET path == UrlPath(base)
      dir == SubSeq(path, 1, LastIndexOf(path, "/", Len(path)))
  IN IF ref = <<>> THEN base
     ELSE IF IsAbsolute(ref) THEN ref
     ELSE IF Head(ref) = "/" THEN <<Authority>> \o ref
     ELSE IF Head(ref) = "?" THEN <<Authority>> \o path \o ref
     ELSE <<Authority>> \o (IF dir = <<>> THEN <<"/">> ELSE dir) \o ref

\* ------------------------------------------------------------------ Loader
\* The input file: whether it exists, the header row csv.DictReader reads as
\* fieldnames (<<>>: an empty file, fieldnames is None) and the data rows, each
\* a sequence of cells.
CertColumn == "Cert"

IndexOf(s, t) == IF t \in Range(s) THEN CHOOSE i \in 1..Len(s) : s[i] = t /\ \A j \in 1..(i - 1) : s[j] # t ELSE 0

\* row.get(col) of a DictReader row: None when the row is too short.
RowGet(fieldnames, row, col) ==
  LET i == IndexOf(fieldnames, col)
  IN IF i >= 1 /\ i <= Len(row) THEN <<row[i]>> ELSE <<>>

\* The loop "for row in reader: cert = row.get(col); if cert: certs.append(cert.strip())".
\* DictReader itself skips a row without any cell.
RECURSIVE ReadColumn(_, _, _)
ReadColumn(fieldnames, rows, col) ==
  IF rows = <<>> THEN <<>>
  ELSE LET cert == RowGet(fieldnames, Head(rows), col)
           rest == ReadColumn(fieldnames, Tail(rows), col)
       IN IF Head(rows) # <<>> /\ cert # <<>> /\ cert[1] # <<>>
          THEN <<Strip(cert[1])>> \o rest
          ELSE rest

\* The try block of parse_home that reads the certs.
LoadCerts(f) ==
  IF ~f.exists THEN [status |-> "not_found", certs |-> <<>>]
  ELSE IF f.fieldnames = <<>> THEN [status |-> "error", certs |-> <<>>]
  ELSE [status |-> "ok",
        certs |-> ReadColumn(f.fieldnames, f.rows,
                             IF CertColumn \in Range(f.fieldnames)
                             THEN CertColumn ELSE f.fieldnames[1])]

\* ------------------------------------------------------------- Form Locator
\* The homepage is a sequence of nodes in document order: an input outside any
\* form [tag |-> "input", type, name] or a form [tag |-> "form", action, method,
\* inputs, lookup], lookup saying whether the form holds a control named
\* "lookup". The id of an input only chooses a log message and is left out.
HomeUrl == <<Authority, "/">>

RECURSIVE AllInputs(_)
AllInputs(page) ==
  IF page = <<>> THEN <<>>
  ELSE (IF Head(page).tag = "form" THEN Head(page).inputs ELSE <<Head(page)>>)
       \o AllInputs(Tail(page))

RECURSIVE FormInputs(_)
FormInputs(page) ==
  IF page = <<>> THEN <<>>
  ELSE (IF Head(page).tag = "form" THEN Head(page).inputs ELSE <<>>)
       \o FormInputs(Tail(page))

RECURSIVE TelOnly(_)
TelOnly(inputs) ==
  IF inputs = <<>> THEN <<>>
  ELSE (IF Head(inputs).type = "tel" THEN <<Head(inputs)>> ELSE <<>>)
       \o TelOnly(Tail(inputs))

\* response.css('input[type="tel"]').attrib.get("name"): the first match's.
InputName(page) ==
  LET tels == TelOnly(AllInputs(page))
  IN IF tels = <<>> THEN <<>> ELSE tels[1].name

\* "if input_name": neither None nor the empty string.
Truthy(attr) == attr # <<>> /\ attr[1] # ""

\* response.xpath('//form[.//input[@type="tel"]]')
RECURSIVE FormSel(_)
FormSel(page) ==
  IF page = <<>> THEN <<>>
  ELSE (IF Head(page).tag = "form" /\ TelOnly(Head(page).inputs) # <<>>
        THEN <<Head(page)>> ELSE <<>>)
       \o FormSel(Tail(page))

\* form_action: None without such a form, else its action attribute or "".
\* None and "" are both the empty token sequence: the code only tests
\* "not form_action".
FormAction(page) ==
  LET forms == FormSel(page)
  IN IF forms # <<>> /\ forms[1].action # <<>> THEN forms[1].action[1] ELSE <<>>

Upper(m) ==
  CASE m = "get" -> "GET"
    [] m = "post" -> "POST"
    [] OTHER -> m

FormMethod(page) ==
  LET forms == FormSel(page)
  IN IF forms # <<>> /\ forms[1].method # <<>> THEN Upper(forms[1].method[1])
     ELSE "POST"

\* response.css('form input::attr(name)').getall()
RECURSIVE NamesOf(_)
NamesOf(inputs) ==
  IF inputs = <<>> THEN <<>> ELSE Head(inputs).name \o NamesOf(Tail(inputs))

FoundNames(page) == NamesOf(FormInputs(page))

RECURSIVE FormsOf(_)
FormsOf(page) ==
  IF page = <<>> THEN <<>>
  ELSE (IF Head(page).tag = "form" THEN <<Head(page)>> ELSE <<>>)
       \o FormsOf(Tail(page))

\* FormRequest.from_response(response, clickdata={"name": "lookup"}) takes the
\* first form of the page and raises ValueError when the page has no form or
\* the form has no clickable element named "lookup".
FromResponseOk(page) == FormsOf(page) # <<>> /\ FormsOf(page)[1].lookup

\* ---------------------------------------------------------------- Submitter
\* A request: every request has the same fields. row is the position of the
\* identifier in the loaded list: two requests for equal identifiers are two
\* objects. formdata is where the field travels: "body", "query", or "meta"
\* (only in meta["formdata"]), "" when there is none.
Req(kind, url, method, via, field, formdata, cert, row, index) ==
  [kind |-> kind, url |-> url, method |-> method, via |-> via, field |-> field,
   formdata |-> formdata, cert |-> cert, row |-> row, index |-> index]

HomeRequest == Req("home", HomeUrl, "GET", "Request", "", "", <<>>, 0, 0)

GuessedFieldNames == <<"cert", "certificate", "serial", "lookup", "search", "q">>

CandidateFieldNames(page) == FoundNames(page) \o GuessedFieldNames

\* What one run of the generator _manual_form_submit gives: the requests it
\* yields, and whether it raised. scrapy.Request has no "params" parameter,
\* so Request(..., params=None) raises TypeError before anything is yielded.
ManualFormSubmit(cert, form_action, form_method, row, page) ==
  LET target == IF form_action = <<>> THEN HomeUrl ELSE UrlJoin(HomeUrl, form_action)
      field_name == CandidateFieldNames(page)[1]
  IN IF form_method = "GET"
     THEN [raised |-> TRUE, reqs |-> <<>>]
     ELSE [raised |-> FALSE,
           reqs |-> <<Req("submit", target, "POST", "FormRequest", field_name,
                          "body", cert, row, 0)>>]

\* The request FormRequest.from_response builds from the first form.
FromResponse(page, input_name, cert, row) ==
  LET form == FormsOf(page)[1]
      method == IF form.method = <<>> THEN "GET" ELSE Upper(form.method[1])
      url == IF form.action = <<>> THEN HomeUrl ELSE UrlJoin(HomeUrl, form.action[1])
  IN Req("submit", url, method, "from_response", input_name,
         IF method = "GET" THEN "query" ELSE "body", cert, row, 0)

\* One pass of the loop "for cert in certs" of parse_home.
SubmitCert(page, cert, row) ==
  LET input_name == InputName(page)
  IN IF Truthy(input_name) /\ FromResponseOk(page)
     THEN [raised |-> FALSE, reqs |-> <<FromResponse(page, input_name[1], cert, row)>>]
     ELSE ManualFormSubmit(cert, FormAction(page), FormMethod(page), row, page)

\* ---------------------------------------------------------------- Extractor
\* A detail page is the sequence, in document order, of the elements inside
\* div.certlookup-images-item: an anchor [tag |-> "a", href, src], src being
\* the src of the img inside it, or an img outside any anchor
\* [tag |-> "img", href |-> <<>>, src].
RECURSIVE Hrefs(_)
Hrefs(page) ==
  IF page = <<>> THEN <<>>
  ELSE (IF Head(page).tag = "a" THEN Head(page).href ELSE <<>>) \o Hrefs(Tail(page))

RECURSIVE Srcs(_)
Srcs(page) ==
  IF page = <<>> THEN <<>>
  ELSE (IF Head(page).tag = "a" THEN Head(page).src ELSE <<>>) \o Srcs(Tail(page))

RECURSIVE DirectSrcs(_)
DirectSrcs(page) ==
  IF page = <<>> THEN <<>> ELSE Head(page).src \o DirectSrcs(Tail(page))

\* The loop without its test "if u not in imgs".
RECURSIVE CollectImgsNoDedup(_, _, _)
CollectImgsNoDedup(refs, base, imgs) ==
  IF refs = <<>> THEN imgs
  ELSE IF Head(refs) = <<>> THEN CollectImgsNoDedup(Tail(refs), base, imgs)
  ELSE CollectImgsNoDedup(Tail(refs), base, Append(imgs, UrlJoin(base, Head(refs))))

\* The loop "for u in hrefs + srcs + direct_srcs" of parse_cert.
RECURSIVE CollectImgs(_, _, _)
CollectImgs(refs, base, imgs) ==
  IF refs = <<>> THEN imgs
  ELSE LET u == UrlJoin(base, Head(refs))
       IN IF Head(refs) = <<>> THEN CollectImgs(Tail(refs), base, imgs)
          ELSE IF u \in Range(imgs) THEN CollectImgs(Tail(refs), base, imgs)
          ELSE CollectImgs(Tail(refs), base, Append(imgs, u))

Imgs(page, base) ==
  CollectImgs(Hrefs(page) \o Srcs(page) \o DirectSrcs(page), base, <<>>)

\* The row parse_cert yields: cert and image_1, image_2, ... (images[i] is
\* column image_i).
Item(cert, row, imgs) == [cert |-> cert, row |-> row, images |-> imgs]

\* The download request with enumerate's i as its index, not i + 1.
ImageRequestZeroBased(cert, row, imgs, i) ==
  Req("image", imgs[i], "GET", "Request", "", "", cert, row, i - 1)

\* The download request for imgs[i], i counted from 1 (enumerate's i + 1).
ImageRequest(cert, row, imgs, i) ==
  Req("image", imgs[i], "GET", "Request", "", "", cert, row, i)

\* --------------------------------------------------------------- Downloader
DecodeToken(t) ==
  CASE t = "%2E" -> "."
    [] t = "%3F" -> "?"
    [] OTHER -> t

\* urllib.parse.unquote
Unquote(u) == [i \in 1..Len(u) |-> DecodeToken(u[i])]

\* os.path.basename
Basename(path) == SubSeq(path, LastIndexOf(path, "/", Len(path)) + 1, Len(path))

\* os.path.splitext(base)[1]: from the last dot on, unless only dots come
\* before it.
Splitext(base) ==
  LET dot == LastIndexOf(base, ".", Len(base))
  IN IF dot > 0 /\ \E j \in 1..(dot - 1) : base[j] # "."
     THEN SubSeq(base, dot, Len(base))
     ELSE <<>>

\* _ext_from_url
ExtFromUrl(u) ==
  LET base == Basename(UrlPath(Unquote(u)))
  IN IF "." \in Range(base) THEN Splitext(base) ELSE <<>>

\* ctype.split(";")[0].strip()
RECURSIVE BeforeSemicolon(_)
BeforeSemicolon(c) ==
  IF c = <<>> \/ Head(c) = ";" THEN <<>> ELSE <<Head(c)>> \o BeforeSemicolon(Tail(c))

\* mimetypes.guess_extension: "" stands for None.
GuessExtension(type) ==
  CASE type = <<"image/png">> -> <<".", "png">>
    [] type = <<"image/gif">> -> <<".", "gif">>
    [] type = <<"image/webp">> -> <<".", "webp">>
    [] OTHER -> <<>>

DefaultExt == <<".", "jpg">>

\* The choice with the Content-Type header asked before the URL.
ChooseExtTypeFirst(url, ctype) ==
  LET fromType == GuessExtension(Strip(BeforeSemicolon(ctype)))
      fromUrl == IF fromType = <<>> THEN ExtFromUrl(url) ELSE fromType
  IN IF fromUrl = <<>> THEN DefaultExt ELSE fromUrl

\* The extension save_image chooses for a response.
ChooseExt(url, ctype) ==
  LET fromUrl == ExtFromUrl(url)
      fromType == IF fromUrl = <<>> THEN GuessExtension(Strip(BeforeSemicolon(ctype)))
                  ELSE fromUrl
  IN IF fromType = <<>> THEN DefaultExt ELSE fromType

\* os.path.join(images_store, cert, f"image_{index}{ext}")
ImagePath(cert, index, ext) == <<cert, index, ext>>

\* -------------------------------------------------------------------- state
VARIABLES
  home,      \* the homepage the site serves
  csv,       \* the input file at csv_path
  phase,     \* where parse_home is: "init", "fetching", "failed", "no_input",
             \* "submitting", "raised", "submitted"
  certs,     \* the list parse_home loaded
  next,      \* the position in certs the loop of parse_home is at
  queue,     \* requests the engine has scheduled and not yet sent
  inflight,  \* requests being downloaded
  gens,      \* running parse_cert generators: [row, cert, page, imgs, pos],
             \* page the response's elements, pos the number of values the
             \* engine has taken
  items,     \* the rows written to the feed, in order
  files,     \* the files under images_store: path -> content
  saves,     \* the save_image calls made: what each was for and how it ended
  errors     \* the requests errback_log logged

vars == <<home, csv, phase, certs, next, queue, inflight, gens, items, files,
          saves, errors>>

\* ------------------------------------------------------------------ actions
\* start_requests: the homepage request.
StartRequests ==
  /\ phase = "init"
  /\ phase' = "fetching"
  /\ queue' = queue \cup {HomeRequest}
  /\ UNCHANGED <<home, csv, certs, next, inflight, gens, items, files, saves,
                 errors>>

\* The engine sends a scheduled request while fewer than CONCURRENT_REQUESTS
\* are in flight.
Send ==
  \E r \in queue :
    /\ Cardinality(inflight) < CONCURRENT_REQUESTS
    /\ queue' = queue \ {r}
    /\ inflight' = inflight \cup {r}
    /\ UNCHANGED <<home, csv, phase, certs, next, gens, items, files, saves,
                   errors>>

\* A request fails for good (after the retries): errback_log.
Fail ==
  \E r \in inflight :
    /\ inflight' = inflight \ {r}
    /\ errors' = errors \cup {r}
    /\ phase' = IF r.kind = "home" THEN "failed" ELSE phase
    /\ UNCHANGED <<home, csv, certs, next, queue, gens, items, files, saves>>

\* The loop of parse_home at certs[k]: phase, next and queue after the
\* generator ran to its next yield, to its end, or raised.
LoopStep(cs, k) ==
  IF k > Len(cs)
  THEN phase' = "submitted" /\ UNCHANGED <<next, queue>>
  ELSE LET out == SubmitCert(home, cs[k], k)
       IN /\ phase' = IF out.raised THEN "raised" ELSE "submitting"
          /\ next' = IF out.raised THEN k ELSE k + 1
          /\ queue' = queue \cup Range(out.reqs)

\* The homepage response: parse_home up to its first yield, return or raise.
ParseHome ==
  \E r \in inflight :
    /\ r.kind = "home"
    /\ inflight' = inflight \ {r}
    /\ LET load == LoadCerts(csv)
       IN /\ certs' = load.certs
          /\ IF load.status # "ok" \/ load.certs = <<>>
             THEN phase' = "no_input" /\ UNCHANGED <<next, queue>>
             ELSE LoopStep(load.certs, 1)
    /\ UNCHANGED <<home, csv, gens, items, files, saves, errors>>

\* The engine resumes parse_home: the next pass of its loop.
ParseHomeNext ==
  /\ phase = "submitting"
  /\ LoopStep(certs, next)
  /\ UNCHANGED <<home, csv, certs, inflight, gens, items, files, saves, errors>>

\* A detail-page response, one of `pages`: parse_cert is called and collects
\* the image URLs.
ParseCert(pages) ==
  \E r \in inflight : \E page \in pages :
    /\ r.kind = "submit"
    /\ inflight' = inflight \ {r}
    /\ gens' = gens \cup {[row |-> r.row, cert |-> r.cert, page |-> page,
                           base |-> r.url, imgs |-> Imgs(page, r.url), pos |-> 0]}
    /\ UNCHANGED <<home, csv, phase, certs, next, queue, items, files, saves,
                   errors>>

\* The engine takes the next value of a parse_cert generator: first the item,
\* then one download request per image, then the generator ends.
ParseCertNext ==
  \E g \in gens :
    /\ gens' = (gens \ {g}) \cup
               (IF g.pos > Len(g.imgs) THEN {} ELSE {[g EXCEPT !.pos = g.pos + 1]})
    /\ items' = IF g.pos = 0 THEN Append(items, Item(g.cert, g.row, g.imgs))
                ELSE items
    /\ queue' = IF g.pos \in 1..Len(g.imgs)
                THEN queue \cup {ImageRequest(g.cert, g.row, g.imgs, g.pos)}
                ELSE queue
    /\ UNCHANGED <<home, csv, phase, certs, next, inflight, files, saves, errors>>

\* The payload of every image the site serves.
ImageBody == <<"b1", "b2">>

\* How a save_image call can end: os.makedirs fails (return), open fails
\* (the except branch, nothing created), the write fails after `written`
\* bytes (the except branch), or all of the body is written.
SaveOutcomes(body) ==
  {[result |-> "mkdir_failed", written |-> 0], [result |-> "open_failed", written |-> 0]}
  \cup {[result |-> "write_failed", written |-> k] : k \in 0..(Len(body) - 1)}
  \cup {[result |-> "saved", written |-> Len(body)]}

\* The file system after open(path, "wb") and f.write(body) wrote `written` bytes.
WriteFile(fs, path, body, written) ==
  [p \in DOMAIN fs \cup {path} |->
     IF p = path THEN SubSeq(body, 1, written) ELSE fs[p]]

\* An image response with a Content-Type among `ctypes`: save_image.
SaveImage(ctypes) ==
  \E r \in inflight : \E ctype \in ctypes : \E o \in SaveOutcomes(ImageBody) :
    /\ r.kind = "image"
    /\ inflight' = inflight \ {r}
    /\ LET ext == ChooseExt(r.url, ctype)
           path == ImagePath(r.cert, r.index, ext)
       IN /\ files' = IF o.result \in {"write_failed", "saved"}
                      THEN WriteFile(files, path, ImageBody, o.written)
                      ELSE files
          /\ saves' = saves \cup {[row |-> r.row, cert |-> r.cert, index |-> r.index,
                                   url |-> r.url, ctype |-> ctype, ext |-> ext,
                                   path |-> path, result |-> o.result]}
    /\ UNCHANGED <<home, csv, phase, certs, next, queue, gens, items, errors>>

\* ------------------------------------------------------------------- inputs
Input(type, name) == [tag |-> "input", type |-> type, name |-> name]

Form(action, method, inputs, lookup) ==
  [tag |-> "form", action |-> action, method |-> method, inputs |-> inputs,
   lookup |-> lookup]

LookupAction == <<"/", "l">>

TelNamed == <<Input("tel", <<"certNumber">>)>>

TelUnnamed == <<Input("text", <<"term">>), Input("tel", <<>>)>>

\* The lookup form as the spider expects it.
NormalHome == <<Form(<<LookupAction>>, <<"post">>, TelNamed, TRUE)>>

\* Homepages: the lookup form as expected; with method get; without a control
\* named "lookup", posting or getting; with a tel input without a name, after
\* another named input, posting or getting; with a tel input whose name is
\* empty and no method; a tel input outside any form; nothing at all.
Homes ==
  { NormalHome,
    <<Form(<<LookupAction>>, <<"get">>, TelNamed, TRUE)>>,
    <<Form(<<>>, <<"post">>, TelNamed, FALSE)>>,
    <<Form(<<LookupAction>>, <<"get">>, TelNamed, FALSE)>>,
    <<Form(<<LookupAction>>, <<"post">>, TelUnnamed, TRUE)>>,
    <<Form(<<>>, <<"get">>, TelUnnamed, TRUE)>>,
    <<Form(<<LookupAction>>, <<>>, <<Input("tel", <<"">>)>>, TRUE)>>,
    TelNamed,
    <<>> }

Cells == {<<>>, <<" ">>, <<"A">>, <<"A", " ">>, <<"B">>}

File(fieldnames, rows) == [exists |-> TRUE, fieldnames |-> fieldnames, rows |-> rows]

NoFile == [exists |-> FALSE, fieldnames |-> <<>>, rows |-> <<>>]

\* Files with the one column `name` and at most n rows.
OneColumnFiles(name, n) ==
  {File(<<name>>, rows) : rows \in SeqsUpTo({<<c>> : c \in Cells}, n)}

Anchor(href, src) == [tag |-> "a", href |-> href, src |-> src]

Img(src) == [tag |-> "img", href |-> <<>>, src |-> src]

\* References: the empty one, a relative, a root-relative and an absolute one
\* of one image, and one of another image.
Refs == {<<>>, <<"a", ".", "p">>, <<"/", "a", ".", "p">>, <<Authority, "/", "b">>}

Attrs == {<<>>} \cup {<<r>> : r \in Refs}

Elems == {Anchor(h, s) : h \in Attrs, s \in Attrs} \cup {Img(s) : s \in Attrs}

Pages(n) == SeqsUpTo(Elems, n)

\* A page without images and one whose anchor and img name the same image in
\* two ways.
SomePages ==
  { <<>>,
    <<Anchor(<<<<"a", ".", "p">>>>, <<<<"/", "a", ".", "p">>>>)>> }

PngType == <<"image/png">>

InitWith(homes, csvs) ==
  /\ home \in homes
  /\ csv \in csvs
  /\ phase = "init"
  /\ certs = <<>>
  /\ next = 1
  /\ queue = {}
  /\ inflight = {}
  /\ gens = {}
  /\ items = <<>>
  /\ files = <<>>
  /\ saves = {}
  /\ errors = {}

\* ----------------------------------------------------------- specifications
\* The crawl over every homepage and every one-column file.
Init == InitWith(Homes, {NoFile, File(<<>>, <<>>)} \cup OneColumnFiles(CertColumn, MaxRows))

Next ==
  \/ StartRequests
  \/ Send
  \/ Fail
  \/ ParseHome
  \/ ParseHomeNext
  \/ ParseCert(SomePages)
  \/ ParseCertNext
  \/ SaveImage({PngType})

Spec == Init /\ [][Next]_vars

\* The crawl from the expected homepage over files of one or two columns, with
\* or without a column Cert, with short and empty rows.
LoadCells == {<<>>, <<" ">>, <<" ", "A">>}

Headers == {<<CertColumn>>, <<"Id">>, <<"Id", CertColumn>>, <<"Id", "Note">>}

RowsFor(h) == UNION {[1..k -> LoadCells] : k \in 0..Len(h)}

LoadFiles ==
  {NoFile, File(<<>>, <<>>)}
  \cup UNION {{File(h, rows) : rows \in SeqsUpTo(RowsFor(h), MaxRows)} : h \in Headers}

SpecLoad == InitWith({NormalHome}, LoadFiles) /\ [][Next]_vars

OneCertFile == File(<<CertColumn>>, <<<<<<"A">>>>>>)

\* parse_cert alone, on every detail page of at most MaxElems elements: from
\* the state of the crawl for one certificate in which its submission is in
\* flight.
InitCert ==
  /\ home = NormalHome
  /\ csv = OneCertFile
  /\ phase = "submitted"
  /\ certs = <<<<"A">>>>
  /\ next = 2
  /\ queue = {}
  /\ inflight = {FromResponse(NormalHome, "certNumber", <<"A">>, 1)}
  /\ gens = {}
  /\ items = <<>>
  /\ files = <<>>
  /\ saves = {}
  /\ errors = {}

NextCert ==
  \/ ParseCert(Pages(MaxElems))
  \/ ParseCertNext

SpecCert == InitCert /\ [][NextCert]_vars

\* The crawl for two certificates whose detail pages have no, one or two
\* images.
TwoCertFile == File(<<CertColumn>>, <<<<<<"A">>>>, <<<<"B">>>>>>)

TwoImagePage == <<Anchor(<<<<"a", ".", "p">>>>, <<>>), Img(<<<<Authority, "/", "b">>>>)>>

NextOrder ==
  \/ StartRequests
  \/ Send
  \/ Fail
  \/ ParseHome
  \/ ParseHomeNext
  \/ ParseCert(SomePages \cup {TwoImagePage})
  \/ ParseCertNext
  \/ SaveImage({PngType})

SpecOrder == InitWith({NormalHome}, {TwoCertFile}) /\ [][NextOrder]_vars

\* The crawl for one certificate whose detail page has one image, over every
\* image URL of at most MaxUrlLen tokens after the authority and every
\* Content-Type of at most MaxCtypeLen tokens.
UrlTokens == {"a", ".", "/", "?", "%2E", "%3F"}

CtypeTokens == {"image/gif", "text/x", ";", " "}

ImageUrls == {<<Authority, "/">> \o t : t \in SeqsUpTo(UrlTokens, MaxUrlLen)}

OneImagePages == {<<Anchor(<<u>>, <<>>)>> : u \in ImageUrls}

Ctypes == SeqsUpTo(CtypeTokens, MaxCtypeLen)

NextExt ==
  \/ StartRequests
  \/ Send
  \/ Fail
  \/ ParseHome
  \/ ParseHomeNext
  \/ ParseCert(OneImagePages)
  \/ ParseCertNext
  \/ SaveImage(Ctypes)

SpecExt == InitWith({NormalHome}, {OneCertFile}) /\ [][NextExt]_vars

\* ------------------------------------------------------------------- claims
Requests == queue \cup inflight \cup errors

Finished ==
  /\ phase \in {"failed", "no_input", "raised", "submitted"}
  /\ queue = {} /\ inflight = {} /\ gens = {}

\* The identifier column of a file that loads: Cert, else the first column.
IdColumn(f) == IF \E i \in 1..Len(f.fieldnames) : f.fieldnames[i] = CertColumn
               THEN CHOOSE i \in 1..Len(f.fieldnames) : f.fieldnames[i] = CertColumn
               ELSE 1

\* The rows of a file that have an identifier which is not empty once trimmed.
IdRows(f) ==
  {n \in 1..Len(f.rows) :
     /\ Len(f.rows[n]) >= IdColumn(f)
     /\ \E i \in 1..Len(f.rows[n][IdColumn(f)]) : f.rows[n][IdColumn(f)][i] # " "}

\* s without its surrounding blanks: the part from its first to its last
\* token that is not a blank.
Trimmed(s) ==
  LET solid == {i \in 1..Len(s) : s[i] # " "}
  IN IF solid = {} THEN <<>>
     ELSE SubSeq(s, CHOOSE i \in solid : \A j \in solid : i <= j,
                    CHOOSE i \in solid : \A j \in solid : i >= j)

\* Every row of the file has an identifier that is not blank.
NoBlankRows == Cardinality(IdRows(csv)) = Len(csv.rows)

\* Whether a submission for position k of the loaded list was issued: it is
\* scheduled, in flight or failed, or its detail page arrived.
Issued(k) ==
  \/ \E r \in Requests : r.kind = "submit" /\ r.row = k /\ r.cert = certs[k]
  \/ \E g \in gens : g.row = k
  \/ \E i \in 1..Len(items) : items[i].row = k

\* C1: for a file that loads, once the crawl has run to completion the number
\* of records emitted equals the number of rows whose identifier is not empty
\* after trimming. Stated for the runs in which parse_home issued every
\* submission and no request failed.
C1_RecordsMatchIdentifiers ==
  (Finished /\ phase = "submitted" /\ errors = {})
    => Len(items) = Cardinality(IdRows(csv))

\* C2: the Loader produces exactly the trimmed identifiers of the rows whose
\* identifier is not empty after trimming, in input order.
C2_LoaderSkipsBlankRows ==
  phase \in {"submitting", "raised", "submitted", "no_input"} /\ LoadCerts(csv).status = "ok"
    => /\ Len(certs) = Cardinality(IdRows(csv))
       /\ \A k \in 1..Len(certs) :
            \E n \in IdRows(csv) :
              /\ Cardinality({m \in IdRows(csv) : m <= n}) = k
              /\ certs[k] = Trimmed(csv.rows[n][IdColumn(csv)])

\* C4: a file under its final name is absent or holds a complete payload,
\* never a part of one.
C4_NoPartialFile == \A p \in DOMAIN files : files[p] = ImageBody

\* C5: certificates are independent: when parse_home has ended, every loaded
\* certificate either had its submission issued or is the one whose own
\* request could not be built; a failure for one never leaves another one
\* without its submission.
C5_FailureStaysWithItsCertificate ==
  phase \in {"raised", "submitted"} /\ NoBlankRows
    => \A k \in 1..Len(certs) : Issued(k) \/ (phase = "raised" /\ k = next)

\* C6: for every loaded certificate and every form (field name known or not,
\* method GET or POST, action empty or not) the Submitter issues exactly one
\* submission carrying that certificate.
C6_OneSubmissionPerCertificate ==
  phase \in {"raised", "submitted"} /\ NoBlankRows
    => \A k \in 1..Len(certs) :
         /\ Issued(k)
         /\ Cardinality({r \in Requests : r.kind = "submit" /\ r.row = k}) <= 1

\* C7: when the form locator finds no usable field name, every certificate is
\* submitted in fallback mode with the first of the observed input names
\* followed by the fixed guesses as its one field name.
C7_FallbackUsesFirstCandidate ==
  phase \in {"raised", "submitted"} /\ NoBlankRows /\ ~Truthy(InputName(home))
    => \A k \in 1..Len(certs) :
         /\ Issued(k)
         /\ \A r \in Requests :
              r.kind = "submit" /\ r.row = k
                => /\ r.via = "FormRequest"
                   /\ r.field = (FoundNames(home) \o GuessedFieldNames)[1]

\* C9: no two save_image calls write the same path.
C9_NoTwoWritesToOnePath ==
  \A s1 \in saves : \A s2 \in saves :
    /\ NoBlankRows
    /\ s1 # s2
    /\ s1.result \in {"write_failed", "saved"}
    /\ s2.result \in {"write_failed", "saved"}
    => s1.path # s2.path

\* The references of a detail page in the order of the three selectors.
AllRefs(page) == Hrefs(page) \o Srcs(page) \o DirectSrcs(page)

\* Where URL u first occurs among the resolved, non-empty references.
FirstAt(refs, base, u) ==
  CHOOSE k \in 1..Len(refs) :
    /\ refs[k] # <<>> /\ UrlJoin(base, refs[k]) = u
    /\ \A j \in 1..(k - 1) : refs[j] = <<>> \/ UrlJoin(base, refs[j]) # u

\* C3: the image list of a record holds no URL twice, holds exactly the
\* resolved non-empty references of the page, and orders them by their first
\* occurrence among the anchor hrefs, then the img src inside anchors, then
\* the img src of the container.
C3_ImagesDistinctInFirstSeenOrder ==
  \A g \in gens : \A n \in 1..Len(items) :
    items[n].row = g.row =>
      LET l == items[n].images
          refs == AllRefs(g.page)
      IN /\ \A a \in 1..Len(l) : \A b \in 1..Len(l) : a # b => l[a] # l[b]
         /\ Range(l) = {UrlJoin(g.base, refs[k]) : k \in {j \in 1..Len(refs) : refs[j] # <<>>}}
         /\ \A a \in 1..Len(l) : \A b \in 1..Len(l) :
              a < b => FirstAt(refs, g.base, l[a]) < FirstAt(refs, g.base, l[b])

\* A record with two images was emitted for a page on which two different
\* references resolve to one URL.
C3_Witness ==
  \E g \in gens : \E n \in 1..Len(items) :
    /\ items[n].row = g.row
    /\ Len(items[n].images) = 2
    /\ \E j \in 1..Len(AllRefs(g.page)) : \E k \in 1..Len(AllRefs(g.page)) :
         /\ j < k
         /\ AllRefs(g.page)[j] # <<>> /\ AllRefs(g.page)[k] # <<>>
         /\ AllRefs(g.page)[j] # AllRefs(g.page)[k]
         /\ UrlJoin(g.base, AllRefs(g.page)[j]) = UrlJoin(g.base, AllRefs(g.page)[k])

\* The last path segment of the percent-decoded URL.
LastSegment(u) ==
  LET path == UrlPath(Unquote(u))
      slashes == {i \in 1..Len(path) : path[i] = "/"}
  IN SubSeq(path, Cardinality({i \in 1..Len(path) : \E j \in slashes : i <= j}) + 1, Len(path))

\* The extension of a file name: from its last dot on, when something other
\* than a dot comes before that dot.
ExtensionOf(name) ==
  LET dots == {i \in 1..Len(name) : name[i] = "."}
      last == CHOOSE i \in dots : \A j \in dots : j <= i
  IN IF dots = {} \/ \A j \in 1..(last - 1) : name[j] = "." THEN <<>>
     ELSE SubSeq(name, last, Len(name))

\* The extension of the media type a Content-Type declares, if it has one.
TypeExtension(ctype) ==
  LET semis == {i \in 1..Len(ctype) : ctype[i] = ";"}
      end == IF semis = {} THEN Len(ctype)
             ELSE (CHOOSE i \in semis : \A j \in semis : i <= j) - 1
      type == Trimmed(SubSeq(ctype, 1, end))
  IN IF type = <<"image/gif">> THEN <<".", "gif">>
     ELSE IF type = <<"image/png">> THEN <<".", "png">>
     ELSE IF type = <<"image/webp">> THEN <<".", "webp">>
     ELSE <<>>

\* C8: the extension save_image chooses is the one in the percent-decoded URL
\* path if it has one, else the one the declared content type maps to if it
\* maps to one, else .jpg; it is never empty, and it is the one in the path
\* the file is saved under.
C8_ExtensionPrecedence ==
  \A s \in saves :
    LET fromUrl == ExtensionOf(LastSegment(s.url))
        fromType == TypeExtension(s.ctype)
    IN /\ s.ext # <<>>
       /\ s.path = <<s.cert, s.index, s.ext>>
       /\ fromUrl # <<>> => s.ext = fromUrl
       /\ fromUrl = <<>> /\ fromType # <<>> => s.ext = fromType
       /\ fromUrl = <<>> /\ fromType = <<>> => s.ext = <<".", "jpg">>

\* An image was saved whose URL has an extension and whose content type maps
\* to another one.
C8_Witness ==
  \E s \in saves :
    /\ s.result = "saved"
    /\ ExtensionOf(LastSegment(s.url)) # <<>>
    /\ TypeExtension(s.ctype) # <<>>
    /\ s.ext # TypeExtension(s.ctype)

\* The record emitted for the certificate at position `row` holds `url` as
\* its image number `index`.
InRecord(row, cert, index, url) ==
  \E n \in 1..Len(items) :
    /\ items[n].row = row /\ items[n].cert = cert
    /\ index \in 1..Len(items[n].images)
    /\ items[n].images[index] = url

\* C10: ordering is causal. A download exists only once its certificate's
\* record was emitted, and the download with index i is for the URL in column
\* image_i of that record; a certificate's extraction runs only once its
\* submission has completed (it is no longer scheduled or in flight, and did
\* not fail).
C10_CausalOrder ==
  /\ \A r \in Requests : r.kind = "image" => InRecord(r.row, r.cert, r.index, r.url)
  /\ \A s \in saves : InRecord(s.row, s.cert, s.index, s.url)
  /\ \A r \in Requests :
       r.kind = "submit" =>
         /\ \A g \in gens : g.row # r.row
         /\ \A n \in 1..Len(items) : items[n].row # r.row

\* The download of a second image is scheduled while the first is saved.
C10_Witness ==
  /\ \E r \in queue : r.kind = "image" /\ r.index = 2
  /\ \E s \in saves : s.index = 1

====
